---- MODULE Spec2Model ----
(***************************************************************************)
(* Model of src/src/glib.c of lgi: the GValue marshaller, the Lua GClosure *)
(* bridge and the GLib log handler.                                        *)
(*                                                                         *)
(* luaL_error / luaL_typerror never return: they unwind (longjmp) to the   *)
(* innermost protected call.  An operation that reaches one of them ends   *)
(* there, with "raised" set to the error message, and nothing after the    *)
(* call site in the C function is executed.                                *)
(***************************************************************************)
EXTENDS Integers, Sequences, FiniteSets, TLC

VARIABLES
  logHandler,   \* registry slot LGI_REG_LOG_HANDLER: a Lua value (nil = absent)
  logResult,    \* what the last run of log_handler did
  emitted,      \* what the last call of lgi_glib_log did
  vbox,         \* a GValue handed to the value marshaller
  owned,        \* per pointer, the owned handles lgi_value_store produced
  vlast,        \* what the last call on vbox did
  registry,     \* LUA_REGISTRYINDEX as used by luaL_ref / luaL_unref
  closures,     \* the LgiClosure instances, by closure id
  stack,        \* depth of the value stack of each lua_State
  heap,         \* reference counts of the native objects
  last          \* what the last closure operation did

vars ==
  <<logHandler, logResult, emitted, vbox, owned, vlast, registry, closures,
    stack, heap, last>>

logVars == <<logHandler, logResult, emitted>>
closureVars == <<registry, closures, stack, heap, last>>
valueVars == <<vbox, owned, vlast>>

(***************************************************************************)
(* Bounds of the model.                                                    *)
(***************************************************************************)
\* log_level masks have at most this many bits set
MaxBitsSet == 2
\* closure instances that are ever created
MaxClosures == 2
\* invocations are stopped when a value stack reaches this depth
MaxStack == 2
\* longest parameter array handed to the marshal callback
MaxParams == 2
\* highest reference count of a native object
MaxRefCount == 3
\* owned handles taken from one pointer by lgi_value_store
MaxHandles == 2

NoError == "no error"

(***************************************************************************)
(* Lua values.  type is the lua_type name; n carries a number, s a string, *)
(* a function/table identity, or the native pointer of a compound handle.  *)
(***************************************************************************)
LuaVal(t, n, s) == [type |-> t, n |-> n, s |-> s]

Nil == LuaVal("nil", 0, "")
LuaFalse == LuaVal("boolean", 0, "false")
LuaTrue == LuaVal("boolean", 1, "true")
LuaNum(n) == LuaVal("number", n, "")
LuaStr(s) == LuaVal("string", 0, s)

\* lua_toboolean: false for nil and false, true for everything else
lua_toboolean(v) == ~(v.type = "nil" \/ (v.type = "boolean" /\ v.n = 0))

(***************************************************************************)
(* Bit operations on log_level masks.                                      *)
(***************************************************************************)
RECURSIVE BitAnd(_, _)
BitAnd(a, b) ==
  IF a = 0 \/ b = 0 THEN 0
  ELSE (IF a % 2 = 1 /\ b % 2 = 1 THEN 1 ELSE 0) + 2 * BitAnd(a \div 2, b \div 2)

RECURSIVE BitOr(_, _)
BitOr(a, b) ==
  IF a = 0 THEN b
  ELSE IF b = 0 THEN a
  ELSE (IF a % 2 = 1 \/ b % 2 = 1 THEN 1 ELSE 0) + 2 * BitOr(a \div 2, b \div 2)

\* GLogLevelFlags
G_LOG_FLAG_RECURSION == 2^0
G_LOG_FLAG_FATAL == 2^1
G_LOG_LEVEL_ERROR == 2^2
G_LOG_LEVEL_DEBUG == 2^7

\* static const char* log_levels[]: element i of the C array is log_levels[i+1]
log_levels == <<"ERROR", "CRITICAL", "WARNING", "MESSAGE", "INFO", "DEBUG", "???">>

(***************************************************************************)
(* log_handler                                                             *)
(***************************************************************************)
\* The loop of log_handler that converts log_level to a string, started at
\* level_bit with level pointing at log_levels[idx]; yields the index at
\* which the loop stops.
RECURSIVE LevelLoop(_, _, _)
LevelLoop(log_level, level_bit, idx) ==
  IF level_bit <= G_LOG_LEVEL_DEBUG
  THEN IF BitAnd(log_level, level_bit) # 0
       THEN idx
       ELSE LevelLoop(log_level, level_bit * 2, idx + 1)
  ELSE idx

\* a loop that compares the mask with the level bit instead of testing it
LevelIndexExactMatch(log_level) ==
  IF \E i \in 1 .. 6 : log_level = 2^(i + 1)
  THEN CHOOSE i \in 1 .. 6 : log_level = 2^(i + 1)
  ELSE 7

LevelIndex(log_level) == LevelLoop(log_level, G_LOG_LEVEL_ERROR, 1)

LevelName(log_level) == log_levels[LevelIndex(log_level)]

\* the comment of the switch taken literally: any non-nil result is "handled"
PcallOutcomeNonNil(status, result) ==
  [handled |-> status = "OK" /\ result.type # "nil",
   throw   |-> status = "LUA_ERRRUN"]

\* The switch on the status of lua_pcall (L, 3, 1, 0): handled and throw.
PcallOutcome(status, result) ==
  [handled |-> IF status = "OK" THEN lua_toboolean(result) ELSE FALSE,
   throw   |-> status = "LUA_ERRRUN"]

\* a test that lost the G_LOG_FLAG_FATAL bit
ShouldThrowErrorOnly(throw, log_level) ==
  throw \/ BitAnd(log_level, G_LOG_LEVEL_ERROR) # 0

\* a test that lost the forced throw of a failed handler
ShouldThrowLevelOnly(throw, log_level) ==
  BitAnd(log_level, BitOr(G_LOG_FLAG_FATAL, G_LOG_LEVEL_ERROR)) # 0

\* if (throw || log_level & (G_LOG_FLAG_FATAL | G_LOG_LEVEL_ERROR))
ShouldThrow(throw, log_level) ==
  throw \/ BitAnd(log_level, BitOr(G_LOG_FLAG_FATAL, G_LOG_LEVEL_ERROR)) # 0

\* luaL_error (L, "%s-%s **: %s", log_domain, *level, message)
LogErrorMessage(log_domain, level, message) ==
  log_domain \o "-" \o level \o " **: " \o message

\* a handler that forwards to the default logger before it raises
log_handler_forward_first(handler, log_domain, log_level, message, status, result) ==
  LET level == LevelName(log_level)
      called == handler.type # "nil"
      out == IF called THEN PcallOutcome(status, result)
             ELSE [handled |-> FALSE, throw |-> FALSE]
      raise == ShouldThrow(out.throw, log_level)
  IN [log_domain |-> log_domain, log_level |-> log_level, message |-> message,
      registered |-> called,
      status |-> IF called THEN status ELSE "not called",
      result |-> IF called /\ status = "OK" THEN result ELSE Nil,
      level |-> level,
      handlerArgs |-> IF called THEN <<log_domain, level, message>> ELSE <<>>,
      handled |-> out.handled,
      raised |-> IF raise THEN LogErrorMessage(log_domain, level, message)
                 ELSE NoError,
      defaultCalls |-> IF ~out.handled THEN 1 ELSE 0]

\* One run of log_handler for the event (log_domain, log_level, message),
\* with `handler` in the registry slot; status and result are what the
\* protected call of the handler yields when there is one.
log_handler(handler, log_domain, log_level, message, status, result) ==
  LET level == LevelName(log_level)
      called == handler.type # "nil"
      out == IF called THEN PcallOutcome(status, result)
             ELSE [handled |-> FALSE, throw |-> FALSE]
      raise == ShouldThrow(out.throw, log_level)
  IN [log_domain |-> log_domain, log_level |-> log_level, message |-> message,
      registered |-> called,
      status |-> IF called THEN status ELSE "not called",
      result |-> IF called /\ status = "OK" THEN result ELSE Nil,
      level |-> level,
      handlerArgs |-> IF called THEN <<log_domain, level, message>> ELSE <<>>,
      handled |-> out.handled,
      raised |-> IF raise THEN LogErrorMessage(log_domain, level, message)
                 ELSE NoError,
      \* luaL_error does not return: the default logger is reached only
      \* when nothing was raised
      defaultCalls |-> IF ~raise /\ ~out.handled THEN 1 ELSE 0]

(***************************************************************************)
(* The diagnostic bridge as a state machine.                               *)
(***************************************************************************)
\* <<log_domain, message>> of the events
LogTexts == {<<"app", "low memory">>, <<"Gtk", "x">>}

\* bits of a log_level mask: the two flags, the six levels and one
\* user-defined level (1 << 8)
LogBits == 0 .. 8

RECURSIVE PopCount(_)
PopCount(m) == IF m = 0 THEN 0 ELSE (m % 2) + PopCount(m \div 2)

LogLevels == {m \in 0 .. (2^(Cardinality(LogBits)) - 1) : PopCount(m) <= MaxBitsSet}

LogFunction == LuaVal("function", 0, "on_log")
\* what scripting code can leave in the handler slot: nothing, a function,
\* or a value that cannot be called
LogHandlers == {Nil, LogFunction, LuaNum(1)}

\* results a handler can return
HandlerResults == {Nil, LuaFalse, LuaTrue, LuaNum(0)}

\* what lua_pcall can report for a call of `handler`
PcallStatuses(handler) ==
  IF handler.type = "function"
  THEN {"OK", "LUA_ERRRUN", "LUA_ERRMEM", "LUA_ERRERR"}
  ELSE {"LUA_ERRRUN"}

NoLogEvent ==
  [log_domain |-> "", log_level |-> 0, message |-> "", registered |-> FALSE,
   status |-> "no event", result |-> Nil, level |-> "", handlerArgs |-> <<>>,
   handled |-> FALSE, raised |-> NoError, defaultCalls |-> 0]

\* decimal strings of the numbers of the model, as lua_tostring and
\* lua_tonumber convert them
NumberStrings == <<"0", "1", "7">>
NumberValues == <<0, 1, 7>>
IsNumeric(str) == \E i \in 1 .. Len(NumberStrings) : NumberStrings[i] = str
StrToNum(str) ==
  NumberValues[CHOOSE i \in 1 .. Len(NumberStrings) : NumberStrings[i] = str]
NumToStr(n) ==
  IF \E i \in 1 .. Len(NumberValues) : NumberValues[i] = n
  THEN NumberStrings[CHOOSE i \in 1 .. Len(NumberValues) : NumberValues[i] = n]
  ELSE "number"

\* luaL_typerror / luaL_checktype message
TypeError(expected, v) == expected \o " expected, got " \o v.type

\* luaL_checkinteger: [ok, n, raised]
luaL_checkinteger(v) ==
  IF v.type = "number" THEN [ok |-> TRUE, n |-> v.n, raised |-> NoError]
  ELSE IF v.type = "string" /\ IsNumeric(v.s)
  THEN [ok |-> TRUE, n |-> StrToNum(v.s), raised |-> NoError]
  ELSE [ok |-> FALSE, n |-> 0, raised |-> TypeError("number", v)]

\* luaL_checkstring: [ok, s, raised]
luaL_checkstring(v) ==
  IF v.type = "string" THEN [ok |-> TRUE, s |-> v.s, raised |-> NoError]
  ELSE IF v.type = "number"
  THEN [ok |-> TRUE, s |-> NumToStr(v.n), raised |-> NoError]
  ELSE [ok |-> FALSE, s |-> "", raised |-> TypeError("string", v)]

\* no call of lgi_glib_log: the last event, if any, came from native code
NoEmit ==
  [called |-> FALSE, level_arg |-> Nil, raised |-> NoError, logged |-> FALSE,
   level |-> 0]

\* luaL_checkoption (L, narg, def, lst) for the argument v: the index of
\* the option in lst, def standing for an absent argument:
\* [ok, idx, raised]
luaL_checkoption(v, def, lst) ==
  LET name == IF v.type = "nil"
              THEN [ok |-> TRUE, s |-> def, raised |-> NoError]
              ELSE luaL_checkstring(v)
  IN IF ~name.ok THEN [ok |-> FALSE, idx |-> 0, raised |-> name.raised]
     ELSE IF \E i \in 1 .. Len(lst) : lst[i] = name.s
     THEN [ok |-> TRUE, raised |-> NoError,
           idx |-> CHOOSE i \in 1 .. Len(lst) :
                     lst[i] = name.s /\ \A j \in 1 .. (i - 1) : lst[j] # name.s]
     ELSE [ok |-> FALSE, idx |-> 0,
           raised |-> "invalid option '" \o name.s \o "'"]

\* a shift by the option index plus one
lgi_glib_log_shift1(level_arg) ==
  LET o == luaL_checkoption(level_arg, log_levels[6], log_levels)
  IN IF o.ok
     THEN [called |-> TRUE, level_arg |-> level_arg, raised |-> NoError,
           logged |-> TRUE, level |-> 2^(o.idx - 1 + 1)]
     ELSE [called |-> TRUE, level_arg |-> level_arg, raised |-> o.raised,
           logged |-> FALSE, level |-> 0]

\* lgi_glib_log with a string domain and message and the level argument
\* level_arg: the level handed to g_log, 1 << (option + 2), the option
\* being the 0-based index in log_levels
lgi_glib_log(level_arg) ==
  LET o == luaL_checkoption(level_arg, log_levels[6], log_levels)
  IN IF o.ok
     THEN [called |-> TRUE, level_arg |-> level_arg, raised |-> NoError,
           logged |-> TRUE, level |-> 2^(o.idx - 1 + 2)]
     ELSE [called |-> TRUE, level_arg |-> level_arg, raised |-> o.raised,
           logged |-> FALSE, level |-> 0]

\* g_log: the masks a handler can be given for an event logged at level.
\* GLib adds G_LOG_FLAG_FATAL when the level is fatal: G_LOG_LEVEL_ERROR
\* always is, the other levels are when the application made them so.
g_log(level) ==
  IF BitAnd(level, G_LOG_LEVEL_ERROR) # 0
  THEN {BitOr(level, G_LOG_FLAG_FATAL)}
  ELSE {level, BitOr(level, G_LOG_FLAG_FATAL)}

\* level arguments of lgi_glib_log: the names, the absent argument, and
\* values that are no level name
LevelArgs ==
  {LuaStr(log_levels[i]) : i \in 1 .. Len(log_levels)}
  \cup {Nil, LuaStr("error"), LuaStr("FATAL"), LuaNum(1), LuaTrue}

\* lgi_glib_init has installed log_handler; no Lua handler is registered
LogInit ==
  /\ logHandler = Nil
  /\ logResult = NoLogEvent
  /\ emitted = NoEmit

\* scripting code stores a handler in (or clears) the registry slot
SetLogHandler(h) ==
  /\ logHandler' = h
  /\ UNCHANGED <<logResult, emitted>>

\* GLib delivers a log event to log_handler
LogEvent(log_domain, log_level, message) ==
  /\ \E status \in PcallStatuses(logHandler) :
       \E result \in (IF status = "OK" /\ logHandler.type # "nil"
                      THEN HandlerResults ELSE {Nil}) :
         logResult' = log_handler(logHandler, log_domain, log_level, message,
                                  status, result)
  /\ emitted' = NoEmit
  /\ UNCHANGED logHandler

\* scripting code calls lgi_glib_log (log_domain, level_arg, message); a
\* level that passes the check is logged, and GLib runs log_handler before
\* g_log returns
Emit(log_domain, level_arg, message) ==
  /\ \E e \in {lgi_glib_log(level_arg)} :
       /\ emitted' = e
       /\ IF e.logged
          THEN \E log_level \in g_log(e.level),
                  status \in PcallStatuses(logHandler) :
                 \E result \in (IF status = "OK" /\ logHandler.type # "nil"
                                THEN HandlerResults ELSE {Nil}) :
                   logResult' = log_handler(logHandler, log_domain, log_level,
                                            message, status, result)
          ELSE logResult' = NoLogEvent
  /\ UNCHANGED logHandler

LogNext ==
  \/ \E h \in LogHandlers : SetLogHandler(h) /\ UNCHANGED <<closureVars, valueVars>>
  \/ \E t \in LogTexts, l \in LogLevels :
       LogEvent(t[1], l, t[2]) /\ UNCHANGED <<closureVars, valueVars>>
  \/ \E t \in LogTexts, a \in LevelArgs :
       Emit(t[1], a, t[2]) /\ UNCHANGED <<closureVars, valueVars>>

(***************************************************************************)
(* GTypes and GValues.                                                     *)
(***************************************************************************)
\* The GTypes of the model: no-value types, the primitive table of
\* decltype.h, and one or two types of each fundamental kind that
\* lgi_value_load and lgi_value_store switch on.
GTypes ==
  {"G_TYPE_INVALID", "G_TYPE_NONE",
   "G_TYPE_BOOLEAN", "G_TYPE_INT", "G_TYPE_STRING",
   "GtkOrientation", "GdkModifierType",
   "GtkButton", "AppPrivateObject", "GdkRectangle", "GParamInt"}

\* G_TYPE_FUNDAMENTAL
G_TYPE_FUNDAMENTAL(type) ==
  CASE type = "GtkOrientation"   -> "G_TYPE_ENUM"
    [] type = "GdkModifierType"  -> "G_TYPE_FLAGS"
    [] type = "GtkButton"        -> "G_TYPE_OBJECT"
    [] type = "AppPrivateObject" -> "G_TYPE_OBJECT"
    [] type = "GdkRectangle"     -> "G_TYPE_BOXED"
    [] type = "GParamInt"        -> "G_TYPE_PARAM"
    [] OTHER                     -> type

\* a test that takes every type for value-bearing
G_TYPE_IS_VALUE_any(type) == type = type

\* G_TYPE_IS_VALUE: the type can be held by a GValue
G_TYPE_IS_VALUE(type) == type \notin {"G_TYPE_INVALID", "G_TYPE_NONE"}

\* g_irepository_find_by_gtype: the types the typelibs describe
\* (AppPrivateObject is registered by the application only)
g_irepository_find_by_gtype(type) ==
  type \in {"GtkOrientation", "GdkModifierType", "GtkButton", "GdkRectangle"}

\* The gtype column of decltype.h
PrimitiveTypes == {"G_TYPE_BOOLEAN", "G_TYPE_INT", "G_TYPE_STRING"}

\* a GValue: its type and its payload (n: boolean, integer, enum or flags
\* value; s: string; p: object or boxed pointer, "" for NULL)
GValue(type, n, str, ptr) == [g_type |-> type, n |-> n, s |-> str, p |-> ptr]

\* a compound handle: the userdata lgi_compound_create pushes for ptr
Compound(ptr) == LuaVal("userdata", 0, ptr)

\* lgi_compound_get: the native pointer behind a compound handle
lgi_compound_get(v) ==
  IF v.type = "userdata" /\ v.s # ""
  THEN [ok |-> TRUE, obj |-> v.s, raised |-> NoError]
  ELSE [ok |-> FALSE, obj |-> "", raised |-> TypeError("lgi.compound", v)]

\* the native objects and boxed values GValues point to
Pointers == {"button1", "rect1"}

\* one more reference (object) or copy (boxed) of ptr
HeapRef(h, ptr) == IF ptr \in DOMAIN h THEN [h EXCEPT ![ptr] = @ + 1] ELSE h
\* one reference or copy of ptr less
HeapUnref(h, ptr) == IF ptr \in DOMAIN h THEN [h EXCEPT ![ptr] = @ - 1] ELSE h

\* "%d" of a non-negative int
RECURSIVE IntToStr(_)
IntToStr(n) ==
  LET digits == <<"0", "1", "2", "3", "4", "5", "6", "7", "8", "9">>
  IN IF n < 10 THEN digits[n + 1]
     ELSE IntToStr(n \div 10) \o digits[(n % 10) + 1]

\* GITypeTag: the numeric value of the tags of the model
GITypeTag ==
  [GI_TYPE_TAG_VOID |-> 0, GI_TYPE_TAG_BOOLEAN |-> 1, GI_TYPE_TAG_INT32 |-> 6,
   GI_TYPE_TAG_UTF8 |-> 13, GI_TYPE_TAG_ARRAY |-> 15,
   GI_TYPE_TAG_INTERFACE |-> 16, GI_TYPE_TAG_GLIST |-> 17,
   GI_TYPE_TAG_ERROR |-> 20]

\* The tag and val_type columns of decltype.h
DeclTypes ==
  [GI_TYPE_TAG_BOOLEAN |-> "G_TYPE_BOOLEAN", GI_TYPE_TAG_INT32 |-> "G_TYPE_INT",
   GI_TYPE_TAG_UTF8 |-> "G_TYPE_STRING"]

\* g_base_info_get_type of the interface descriptors of the model, with
\* the numeric value of GIInfoType
GIInfoType ==
  [GI_INFO_TYPE_FUNCTION |-> 1, GI_INFO_TYPE_CALLBACK |-> 2,
   GI_INFO_TYPE_STRUCT |-> 3, GI_INFO_TYPE_ENUM |-> 5, GI_INFO_TYPE_FLAGS |-> 6,
   GI_INFO_TYPE_OBJECT |-> 7]
g_base_info_get_type(ii) ==
  CASE ii = "GtkOrientation"  -> "GI_INFO_TYPE_ENUM"
    [] ii = "GdkModifierType" -> "GI_INFO_TYPE_FLAGS"
    [] ii = "GtkButton"       -> "GI_INFO_TYPE_OBJECT"
    [] ii = "GdkRectangle"    -> "GI_INFO_TYPE_STRUCT"
    [] ii = "GtkTextIter"     -> "GI_INFO_TYPE_STRUCT"
    [] ii = "gtk_main"        -> "GI_INFO_TYPE_FUNCTION"
    [] ii = "GtkCallback"     -> "GI_INFO_TYPE_CALLBACK"

\* GI_IS_REGISTERED_TYPE_INFO
GI_IS_REGISTERED_TYPE_INFO(ii) ==
  g_base_info_get_type(ii) \in
    {"GI_INFO_TYPE_STRUCT", "GI_INFO_TYPE_ENUM", "GI_INFO_TYPE_FLAGS",
     "GI_INFO_TYPE_OBJECT"}

\* g_registered_type_info_get_g_type: G_TYPE_NONE for a structure that
\* has no GType
g_registered_type_info_get_g_type(ii) ==
  IF ii = "GtkTextIter" THEN "G_TYPE_NONE" ELSE ii

\* g_value_init (val, type): GLib initializes a zeroed box with a
\* value-bearing type; otherwise it warns and leaves the box as it is
g_value_init(val, type) ==
  IF G_TYPE_IS_VALUE(type) /\ val.g_type = "G_TYPE_INVALID"
  THEN GValue(type, 0, "", "")
  ELSE val

\* an init that keeps the descriptor when the type is not registered
lgi_value_init_keep(val, ti) ==
  LET tag == ti.tag
  IN IF tag = "GI_TYPE_TAG_VOID"
     THEN [raised |-> NoError, val |-> g_value_init(val, "G_TYPE_NONE"),
           ii_got |-> 0, ii_unref |-> 0]
     ELSE IF tag \in DOMAIN DeclTypes
     THEN [raised |-> NoError, val |-> g_value_init(val, DeclTypes[tag]),
           ii_got |-> 0, ii_unref |-> 0]
     ELSE IF tag = "GI_TYPE_TAG_INTERFACE"
     THEN LET ii == ti.iface
          IN IF GI_IS_REGISTERED_TYPE_INFO(ii)
             THEN [raised |-> NoError, ii_got |-> 1, ii_unref |-> 1,
                   val |-> g_value_init(val,
                                        g_registered_type_info_get_g_type(ii))]
             ELSE [raised |-> "value_init: bad ti.iface.type="
                                \o IntToStr(GIInfoType[g_base_info_get_type(ii)]),
                   val |-> val, ii_got |-> 1, ii_unref |-> 0]
     ELSE [raised |-> "value_init: bad ti.tag=" \o IntToStr(GITypeTag[tag]),
           val |-> val, ii_got |-> 0, ii_unref |-> 0]

\* an init whose default case initializes the box without a value
lgi_value_init_void(val, ti) ==
  LET tag == ti.tag
  IN IF tag = "GI_TYPE_TAG_VOID"
     THEN [raised |-> NoError, val |-> g_value_init(val, "G_TYPE_NONE"),
           ii_got |-> 0, ii_unref |-> 0]
     ELSE IF tag \in DOMAIN DeclTypes
     THEN [raised |-> NoError, val |-> g_value_init(val, DeclTypes[tag]),
           ii_got |-> 0, ii_unref |-> 0]
     ELSE IF tag = "GI_TYPE_TAG_INTERFACE"
     THEN LET ii == ti.iface
          IN IF GI_IS_REGISTERED_TYPE_INFO(ii)
             THEN [raised |-> NoError, ii_got |-> 1, ii_unref |-> 1,
                   val |-> g_value_init(val,
                                        g_registered_type_info_get_g_type(ii))]
             ELSE [raised |-> "value_init: bad ti.iface.type="
                                \o IntToStr(GIInfoType[g_base_info_get_type(ii)]),
                   val |-> val, ii_got |-> 1, ii_unref |-> 1]
     ELSE [raised |-> NoError, val |-> GValue("G_TYPE_NONE", 0, "", ""),
           ii_got |-> 0, ii_unref |-> 0]

\* lgi_value_init (L, val, ti): [raised, val, ii_got, ii_unref]; ii_got
\* counts the references g_type_info_get_interface returned and ii_unref
\* the calls of g_base_info_unref.  A raise leaves val as it was.
lgi_value_init(val, ti) ==
  LET tag == ti.tag
  IN IF tag = "GI_TYPE_TAG_VOID"
     THEN [raised |-> NoError, val |-> g_value_init(val, "G_TYPE_NONE"),
           ii_got |-> 0, ii_unref |-> 0]
     ELSE IF tag \in DOMAIN DeclTypes
     THEN [raised |-> NoError, val |-> g_value_init(val, DeclTypes[tag]),
           ii_got |-> 0, ii_unref |-> 0]
     ELSE IF tag = "GI_TYPE_TAG_INTERFACE"
     THEN LET ii == ti.iface
          IN IF GI_IS_REGISTERED_TYPE_INFO(ii)
             THEN [raised |-> NoError, ii_got |-> 1, ii_unref |-> 1,
                   val |-> g_value_init(val,
                                        g_registered_type_info_get_g_type(ii))]
             ELSE [raised |-> "value_init: bad ti.iface.type="
                                \o IntToStr(GIInfoType[g_base_info_get_type(ii)]),
                   val |-> val, ii_got |-> 1, ii_unref |-> 1]
     ELSE [raised |-> "value_init: bad ti.tag=" \o IntToStr(GITypeTag[tag]),
           val |-> val, ii_got |-> 0, ii_unref |-> 0]

\* result of a load that raised
LoadRaised(val, h, msg) == [ret |-> 0, raised |-> msg, val |-> val, heap |-> h]

\* the DECLTYPE branch of lgi_value_load: val_set (val, check (L, narg))
LoadPrimitive(val, v, h) ==
  CASE val.g_type = "G_TYPE_BOOLEAN" ->
         [ret |-> 1, raised |-> NoError, heap |-> h,
          val |-> [val EXCEPT !.n = IF lua_toboolean(v) THEN 1 ELSE 0]]
    [] val.g_type = "G_TYPE_INT" ->
         LET c == luaL_checkinteger(v)
         IN IF c.ok
            THEN [ret |-> 1, raised |-> NoError, heap |-> h,
                  val |-> [val EXCEPT !.n = c.n]]
            ELSE LoadRaised(val, h, c.raised)
    [] val.g_type = "G_TYPE_STRING" ->
         LET c == luaL_checkstring(v)
         IN IF c.ok
            THEN [ret |-> 1, raised |-> NoError, heap |-> h,
                  val |-> [val EXCEPT !.s = c.s]]
            ELSE LoadRaised(val, h, c.raised)

\* "g_value_set: no handling of %s(%s))"
LoadNoHandling(type) ==
  "g_value_set: no handling of " \o type \o "(" \o G_TYPE_FUNDAMENTAL(type) \o "))"

\* a load that swallows a value of the wrong kind and reports 0
lgi_value_load_swallow(val, v, h) ==
  LET type == val.g_type
      fund == G_TYPE_FUNDAMENTAL(type)
  IN IF ~G_TYPE_IS_VALUE(type)
     THEN [ret |-> 0, raised |-> NoError, val |-> val, heap |-> h]
     ELSE IF type \in PrimitiveTypes
     THEN LET r == LoadPrimitive(val, v, h)
          IN IF r.raised = NoError THEN r
             ELSE [ret |-> 0, raised |-> NoError, val |-> val, heap |-> h]
     ELSE IF fund \in {"G_TYPE_ENUM", "G_TYPE_FLAGS"}
     THEN LET c == luaL_checkinteger(v)
          IN IF c.ok
             THEN [ret |-> 1, raised |-> NoError, heap |-> h,
                   val |-> [val EXCEPT !.n = c.n]]
             ELSE [ret |-> 0, raised |-> NoError, val |-> val, heap |-> h]
     ELSE IF fund \in {"G_TYPE_OBJECT", "G_TYPE_BOXED"}
     THEN LET c == lgi_compound_get(v)
          IN IF c.ok
             THEN [ret |-> 1, raised |-> NoError,
                   heap |-> HeapUnref(HeapRef(h, c.obj), val.p),
                   val |-> [val EXCEPT !.p = c.obj]]
             ELSE [ret |-> 0, raised |-> NoError, val |-> val, heap |-> h]
     ELSE [ret |-> 0, raised |-> NoError, val |-> val, heap |-> h]

\* lgi_value_load (L, val, narg) with the Lua value v at narg and the heap
\* h: [ret, raised, val, heap].  A raise leaves val as it was.
lgi_value_load(val, v, h) ==
  LET type == val.g_type
      fund == G_TYPE_FUNDAMENTAL(type)
  IN IF ~G_TYPE_IS_VALUE(type)
     THEN [ret |-> 0, raised |-> NoError, val |-> val, heap |-> h]
     ELSE IF type \in PrimitiveTypes
     THEN LoadPrimitive(val, v, h)
     ELSE IF fund \in {"G_TYPE_ENUM", "G_TYPE_FLAGS"}
     THEN LET c == luaL_checkinteger(v)
          IN IF c.ok
             THEN [ret |-> 1, raised |-> NoError, heap |-> h,
                   val |-> [val EXCEPT !.n = c.n]]
             ELSE LoadRaised(val, h, c.raised)
     ELSE IF fund \in {"G_TYPE_OBJECT", "G_TYPE_BOXED"}
     THEN LET c == lgi_compound_get(v)
          IN IF c.ok
             \* g_value_set_object / g_value_set_boxed: the box takes its
             \* own reference (copy) of obj and drops the one it held
             THEN [ret |-> 1, raised |-> NoError,
                   heap |-> HeapUnref(HeapRef(h, c.obj), val.p),
                   val |-> [val EXCEPT !.p = c.obj]]
             ELSE LoadRaised(val, h, c.raised)
     ELSE LoadRaised(val, h, LoadNoHandling(type))

\* "g_value_get: no handling or  %s(%s)"
StoreNoHandling(type) ==
  "g_value_get: no handling or  " \o type \o "(" \o G_TYPE_FUNDAMENTAL(type) \o ")"

\* the DECLTYPE branch of lgi_value_store: push (L, val_get (val))
StorePrimitive(val) ==
  CASE val.g_type = "G_TYPE_BOOLEAN" ->
         IF val.n # 0 THEN LuaTrue ELSE LuaFalse
    [] val.g_type = "G_TYPE_INT" -> LuaNum(val.n)
    [] val.g_type = "G_TYPE_STRING" -> LuaStr(val.s)

\* a store that knows no flags types
lgi_value_store_no_flags(val, h) ==
  LET type == val.g_type
      fund == G_TYPE_FUNDAMENTAL(type)
  IN IF ~G_TYPE_IS_VALUE(type)
     THEN [ret |-> 0, pushed |-> <<>>, raised |-> NoError, heap |-> h]
     ELSE IF type \in PrimitiveTypes
     THEN [ret |-> 1, pushed |-> <<StorePrimitive(val)>>, raised |-> NoError,
           heap |-> h]
     ELSE IF fund = "G_TYPE_ENUM"
     THEN [ret |-> 1, pushed |-> <<LuaNum(val.n)>>, raised |-> NoError,
           heap |-> h]
     ELSE IF fund \in {"G_TYPE_OBJECT", "G_TYPE_BOXED"}
             /\ g_irepository_find_by_gtype(type)
     THEN [ret |-> 1, pushed |-> <<Compound(val.p)>>, raised |-> NoError,
           heap |-> HeapRef(h, val.p)]
     ELSE [ret |-> 0, pushed |-> <<>>, raised |-> StoreNoHandling(type),
           heap |-> h]

\* a store that wraps the pointer of the box without duplicating it
lgi_value_store_alias(val, h) ==
  LET type == val.g_type
      fund == G_TYPE_FUNDAMENTAL(type)
  IN IF ~G_TYPE_IS_VALUE(type)
     THEN [ret |-> 0, pushed |-> <<>>, raised |-> NoError, heap |-> h]
     ELSE IF type \in PrimitiveTypes
     THEN [ret |-> 1, pushed |-> <<StorePrimitive(val)>>, raised |-> NoError,
           heap |-> h]
     ELSE IF fund \in {"G_TYPE_ENUM", "G_TYPE_FLAGS"}
     THEN [ret |-> 1, pushed |-> <<LuaNum(val.n)>>, raised |-> NoError,
           heap |-> h]
     ELSE IF fund \in {"G_TYPE_OBJECT", "G_TYPE_BOXED"}
             /\ g_irepository_find_by_gtype(type)
     THEN [ret |-> 1, pushed |-> <<Compound(val.p)>>, raised |-> NoError,
           heap |-> h]
     ELSE [ret |-> 0, pushed |-> <<>>, raised |-> StoreNoHandling(type),
           heap |-> h]

\* lgi_value_store (L, val) with the heap h: [ret, pushed, raised, heap];
\* pushed are the Lua values left on the stack, ret their count.
lgi_value_store(val, h) ==
  LET type == val.g_type
      fund == G_TYPE_FUNDAMENTAL(type)
  IN IF ~G_TYPE_IS_VALUE(type)
     THEN [ret |-> 0, pushed |-> <<>>, raised |-> NoError, heap |-> h]
     ELSE IF type \in PrimitiveTypes
     THEN [ret |-> 1, pushed |-> <<StorePrimitive(val)>>, raised |-> NoError,
           heap |-> h]
     ELSE IF fund \in {"G_TYPE_ENUM", "G_TYPE_FLAGS"}
     THEN [ret |-> 1, pushed |-> <<LuaNum(val.n)>>, raised |-> NoError,
           heap |-> h]
     ELSE IF fund \in {"G_TYPE_OBJECT", "G_TYPE_BOXED"}
             /\ g_irepository_find_by_gtype(type)
     \* g_value_dup_object / g_value_dup_boxed, wrapped by
     \* lgi_compound_create (L, bi, obj, TRUE, 0) as an owned handle
     THEN [ret |-> 1, pushed |-> <<Compound(val.p)>>, raised |-> NoError,
           heap |-> HeapRef(h, val.p)]
     ELSE [ret |-> 0, pushed |-> <<>>, raised |-> StoreNoHandling(type),
           heap |-> h]

\* a loop that walks the parameter array from its end
RECURSIVE PushParamsReversed(_, _, _, _, _)
PushParamsReversed(param_values, i, pushed, vals, h) ==
  IF i > Len(param_values)
  THEN [raised |-> NoError, pushed |-> pushed, vals |-> vals,
        stored |-> i - 1, heap |-> h]
  ELSE LET r == lgi_value_store(param_values[Len(param_values) + 1 - i], h)
       IN IF r.raised # NoError
          THEN [raised |-> r.raised, pushed |-> pushed, vals |-> vals,
                stored |-> i, heap |-> r.heap]
          ELSE PushParamsReversed(param_values, i + 1, pushed \o r.pushed,
                                  vals + r.ret, r.heap)

\* a loop that goes on to the next parameter when a store fails
RECURSIVE PushParamsSkip(_, _, _, _, _)
PushParamsSkip(param_values, i, pushed, vals, h) ==
  IF i > Len(param_values)
  THEN [raised |-> NoError, pushed |-> pushed, vals |-> vals,
        stored |-> i - 1, heap |-> h]
  ELSE LET r == lgi_value_store(param_values[i], h)
       IN IF r.raised # NoError
          THEN PushParamsSkip(param_values, i + 1, pushed, vals, r.heap)
          ELSE PushParamsSkip(param_values, i + 1, pushed \o r.pushed,
                              vals + r.ret, r.heap)

\* while (n_param_values--) vals += lgi_value_store (L, param_values++);
\* from parameter i on, with the values pushed so far:
\* [raised, pushed, vals, stored, heap]; stored counts the parameters that
\* lgi_value_store was run on.
RECURSIVE PushParams(_, _, _, _, _)
PushParams(param_values, i, pushed, vals, h) ==
  IF i > Len(param_values)
  THEN [raised |-> NoError, pushed |-> pushed, vals |-> vals,
        stored |-> i - 1, heap |-> h]
  ELSE LET r == lgi_value_store(param_values[i], h)
       IN IF r.raised # NoError
          THEN [raised |-> r.raised, pushed |-> pushed, vals |-> vals,
                stored |-> i, heap |-> r.heap]
          ELSE PushParams(param_values, i + 1, pushed \o r.pushed,
                          vals + r.ret, r.heap)

(***************************************************************************)
(* The registry: luaL_ref and luaL_unref on LUA_REGISTRYINDEX.             *)
(***************************************************************************)
\* content of a slot that holds no value
FreeSlot == LuaVal("free", 0, "")

\* luaL_ref: the most recently freed slot, or a new one past the end
luaL_ref(reg, v) ==
  IF reg.free # <<>>
  THEN [ref |-> Head(reg.free),
        registry |-> [slots |-> [reg.slots EXCEPT ![Head(reg.free)] = v],
                      free |-> Tail(reg.free)]]
  ELSE [ref |-> Len(reg.slots) + 1,
        registry |-> [slots |-> Append(reg.slots, v), free |-> reg.free]]

\* luaL_unref: the slot goes to the head of the free list
luaL_unref(reg, ref) ==
  [slots |-> [reg.slots EXCEPT ![ref] = FreeSlot],
   free |-> <<ref>> \o reg.free]

\* lua_rawgeti (L, LUA_REGISTRYINDEX, ref)
lua_rawgeti(reg, ref) ==
  IF ref \in 1 .. Len(reg.slots) /\ reg.slots[ref] # FreeSlot
  THEN reg.slots[ref] ELSE Nil

\* the value lua_pushthread pushes for L
ThreadValue(L) == LuaVal("thread", 0, L)

(***************************************************************************)
(* LgiClosure                                                              *)
(***************************************************************************)
\* state is "none" (not created), "live" or "finalized".  target, the value
\* given to lgi_gclosure_create, and the unref counts are history kept for
\* the properties; the C struct holds L, thread_ref and target_ref.
NoClosure ==
  [state |-> "none", L |-> "", thread_ref |-> 0, target_ref |-> 0,
   target |-> Nil, thread_unrefs |-> 0, target_unrefs |-> 0]

\* a check that forgot userdata
TargetTypeOkNoUserdata(type) == type = "function" \/ type = "table"

\* !(type != LUA_TFUNCTION && type != LUA_TTABLE && type != LUA_TUSERDATA)
TargetTypeOk(type) ==
  type = "function" \/ type = "table" \/ type = "userdata"

\* lgi_gclosure_create (L, target): [raised, closure, registry]
lgi_gclosure_create(L, target, reg) ==
  IF ~TargetTypeOk(target.type)
  THEN [raised |-> TypeError("function", target), closure |-> NoClosure,
        registry |-> reg]
  ELSE LET r1 == luaL_ref(reg, ThreadValue(L))
           r2 == luaL_ref(r1.registry, target)
       IN [raised |-> NoError,
           closure |-> [state |-> "live", L |-> L, thread_ref |-> r1.ref,
                        target_ref |-> r2.ref, target |-> target,
                        thread_unrefs |-> 0, target_unrefs |-> 0],
           registry |-> r2.registry]

\* a notifier that releases the thread only
lgi_closure_finalize_thread_only(c, reg) ==
  [closure |-> [c EXCEPT !.state = "finalized", !.thread_unrefs = @ + 1],
   registry |-> luaL_unref(reg, c.thread_ref)]

\* a notifier that releases the first two slots of the registry
lgi_closure_finalize_first(c, reg) ==
  [closure |-> [c EXCEPT !.state = "finalized", !.thread_unrefs = @ + 1,
                         !.target_unrefs = @ + 1],
   registry |-> luaL_unref(luaL_unref(reg, 1), 2)]

\* lgi_closure_finalize: [closure, registry]
lgi_closure_finalize(c, reg) ==
  [closure |-> [c EXCEPT !.state = "finalized", !.thread_unrefs = @ + 1,
                         !.target_unrefs = @ + 1],
   registry |-> luaL_unref(luaL_unref(reg, c.thread_ref), c.target_ref)]

\* lgi_get_callback_state (&c->L, &c->thread_ref): the pinned context is
\* reused, and neither field is changed
lgi_get_callback_state(c) == [L |-> c.L, thread_ref |-> c.thread_ref]

\* what lua_pcall can call: a function, or a table or userdata whose
\* metatable has __call (n = 1)
CanCall(v) ==
  v.type = "function" \/ (v.type \in {"table", "userdata"} /\ v.n = 1)

\* a marshaller that loads the value on top of the stack whatever lua_pcall
\* reported
lgi_gclosure_marshal_load_always(c, reg, h, return_value, param_values, outcome) ==
  LET pp == PushParams(param_values, 1, <<>>, 0, h)
      stk == <<lua_rawgeti(reg, c.target_ref)>> \o pp.pushed
      fn == stk[Len(stk) - pp.vals]
      res == IF CanCall(fn) THEN outcome.status ELSE "LUA_ERRRUN"
      ld == lgi_value_load(return_value, outcome.value, pp.heap)
  IN [raised |-> ld.raised, called |-> TRUE, fn |-> fn,
      args |-> SubSeq(stk, Len(stk) - pp.vals + 1, Len(stk)),
      res |-> res, stored |-> pp.stored, return_value |-> ld.val,
      heap |-> ld.heap, depth |-> 1]

\* a marshaller that pops what lua_pcall left before it returns
lgi_gclosure_marshal_pop(c, reg, h, return_value, param_values, outcome) ==
  LET pp == PushParams(param_values, 1, <<>>, 0, h)
      stk == <<lua_rawgeti(reg, c.target_ref)>> \o pp.pushed
      fn == stk[Len(stk) - pp.vals]
      res == IF CanCall(fn) THEN outcome.status ELSE "LUA_ERRRUN"
      ld == lgi_value_load(return_value, outcome.value, pp.heap)
  IN IF pp.raised # NoError
     THEN [raised |-> pp.raised, called |-> FALSE, fn |-> Nil, args |-> <<>>,
           res |-> "not called", stored |-> pp.stored,
           return_value |-> return_value, heap |-> pp.heap, depth |-> 0]
     ELSE IF res = "OK"
     THEN [raised |-> ld.raised, called |-> TRUE, fn |-> fn,
           args |-> SubSeq(stk, Len(stk) - pp.vals + 1, Len(stk)),
           res |-> res, stored |-> pp.stored, return_value |-> ld.val,
           heap |-> ld.heap, depth |-> 0]
     ELSE [raised |-> NoError, called |-> CanCall(fn), fn |-> fn,
           args |-> SubSeq(stk, Len(stk) - pp.vals + 1, Len(stk)),
           res |-> res, stored |-> pp.stored, return_value |-> return_value,
           heap |-> pp.heap, depth |-> 0]

\* lgi_gclosure_marshal for closure c with the registry reg and the heap h.
\* outcome is what the callee does when lua_pcall runs it: [status, value],
\* value being its result, or the error value when it fails.
\* Yields [raised, called, fn, args, res, stored, return_value, heap, depth];
\* depth is the number of slots the call leaves on the stack of L when it
\* returns (a raise unwinds the stack to the catching protected call).
lgi_gclosure_marshal(c, reg, h, return_value, param_values, outcome) ==
  LET pp == PushParams(param_values, 1, <<>>, 0, h)
      stk == <<lua_rawgeti(reg, c.target_ref)>> \o pp.pushed
      fn == stk[Len(stk) - pp.vals]
      res == IF CanCall(fn) THEN outcome.status ELSE "LUA_ERRRUN"
      ld == lgi_value_load(return_value, outcome.value, pp.heap)
  IN IF pp.raised # NoError
     THEN [raised |-> pp.raised, called |-> FALSE, fn |-> Nil, args |-> <<>>,
           res |-> "not called", stored |-> pp.stored,
           return_value |-> return_value, heap |-> pp.heap, depth |-> 0]
     ELSE IF res = "OK"
     THEN [raised |-> ld.raised, called |-> TRUE, fn |-> fn,
           args |-> SubSeq(stk, Len(stk) - pp.vals + 1, Len(stk)),
           res |-> res, stored |-> pp.stored, return_value |-> ld.val,
           heap |-> ld.heap,
           depth |-> IF ld.raised = NoError THEN 1 ELSE 0]
     ELSE [raised |-> NoError, called |-> CanCall(fn), fn |-> fn,
           args |-> SubSeq(stk, Len(stk) - pp.vals + 1, Len(stk)),
           res |-> res, stored |-> pp.stored, return_value |-> return_value,
           heap |-> pp.heap, depth |-> 1]

(***************************************************************************)
(* The closure bridge as a state machine.                                  *)
(***************************************************************************)
Contexts == {"L1", "L2"}
ClosureIds == 1 .. MaxClosures

Fn1 == LuaVal("function", 0, "f1")
TblCallable == LuaVal("table", 1, "t1")
TblPlain == LuaVal("table", 0, "t2")
UdCallable == LuaVal("userdata", 1, "u1")
UdPlain == LuaVal("userdata", 0, "u2")

\* values handed to lgi_gclosure_create
AllTargets ==
  {Fn1, TblCallable, TblPlain, UdCallable, UdPlain,
   Nil, LuaTrue, LuaNum(1), LuaStr("a"), ThreadValue("L1")}
FewTargets == {Fn1, TblPlain, LuaNum(1)}

IntBox(n) == GValue("G_TYPE_INT", n, "", "")
StrBox(str) == GValue("G_TYPE_STRING", 0, str, "")
BoolBox(n) == GValue("G_TYPE_BOOLEAN", n, "", "")
EnumBox(n) == GValue("GtkOrientation", n, "", "")
FlagsBox(n) == GValue("GdkModifierType", n, "", "")
NoneBox == GValue("G_TYPE_NONE", 0, "", "")
ObjBox(type, ptr) == GValue(type, 0, "", ptr)

\* parameter boxes: scalar ones, one without a value, and object-like ones
ScalarBoxes == {IntBox(7), StrBox("a"), EnumBox(1)}
ParamBoxes ==
  ScalarBoxes \cup {NoneBox, ObjBox("GtkButton", "button1"),
                    ObjBox("GParamInt", "")}

\* return boxes, as the native caller initialised them
ReturnBoxes ==
  {IntBox(0), StrBox(""), EnumBox(0), FlagsBox(0), NoneBox,
   ObjBox("GtkButton", ""), ObjBox("GParamInt", "")}

\* what the callee does: returns a value, or fails
ReturnedValues ==
  {Nil, LuaNum(1), LuaStr("a"), LuaStr("7"), TblPlain, Compound("button1")}
Outcomes ==
  {[status |-> "OK", value |-> v] : v \in ReturnedValues}
  \cup {[status |-> "LUA_ERRRUN", value |-> LuaStr("boom")],
        [status |-> "LUA_ERRMEM", value |-> LuaStr("not enough memory")]}

SeqsUpTo(S, n) == UNION {[1 .. k -> S] : k \in 0 .. n}

\* the inputs of an invocation, <<return_value, param_values, outcome>>:
\* every parameter array with one return box and result, and every return
\* box and outcome with no parameter
InvokeInputs ==
  (({IntBox(0)} \X SeqsUpTo(ParamBoxes, MaxParams))
     \X {[status |-> "OK", value |-> LuaNum(1)]})
  \cup ((ReturnBoxes \X {<<>>}) \X Outcomes)
FewInvokeInputs ==
  ({IntBox(0)} \X {<<>>, <<IntBox(7)>>})
    \X {[status |-> "OK", value |-> LuaNum(1)],
        [status |-> "LUA_ERRRUN", value |-> LuaStr("boom")]}

NoOp ==
  [op |-> "none", closure |-> 0, L |-> "", input |-> Nil, raised |-> NoError,
   called |-> FALSE, fn |-> Nil, args |-> <<>>, res |-> "",
   outcome |-> [status |-> "", value |-> Nil],
   stored |-> 0, param_values |-> <<>>,
   ret_before |-> NoneBox, ret_after |-> NoneBox,
   depth_before |-> 0, heap_before |-> <<>>]

ClosureInit ==
  /\ registry = [slots |-> <<>>, free |-> <<>>]
  /\ closures = [c \in ClosureIds |-> NoClosure]
  /\ stack = [L \in Contexts |-> 0]
  /\ heap = [p \in Pointers |-> 1]
  /\ last = NoOp

\* scripting code running on L asks for a closure of target; c is the next
\* unused instance
Create(c, L, target) ==
  /\ closures[c].state = "none"
  /\ \A d \in ClosureIds : d < c => closures[d].state # "none"
  /\ \E r \in {lgi_gclosure_create(L, target, registry)} :
        /\ registry' = r.registry
        /\ closures' = IF r.raised = NoError
                       THEN [closures EXCEPT ![c] = r.closure]
                       ELSE closures
        /\ last' = [NoOp EXCEPT !.op = "create", !.input = target, !.L = L,
                                !.raised = r.raised,
                                !.closure = IF r.raised = NoError THEN c ELSE 0]
  /\ UNCHANGED <<stack, heap>>

\* the event subsystem runs the marshal callback of the live closure c
Invoke(c, return_value, param_values, outcome) ==
  /\ closures[c].state = "live"
  /\ stack[closures[c].L] < MaxStack
  /\ \E cs \in {lgi_get_callback_state(closures[c])},
        r \in {lgi_gclosure_marshal(closures[c], registry, heap, return_value,
                                    param_values, outcome)} :
        /\ \A p \in Pointers : r.heap[p] <= MaxRefCount
        /\ closures' = [closures EXCEPT ![c].L = cs.L,
                                        ![c].thread_ref = cs.thread_ref]
        /\ stack' = [stack EXCEPT ![cs.L] = @ + r.depth]
        /\ heap' = r.heap
        /\ last' = [op |-> "invoke", closure |-> c, L |-> cs.L, input |-> Nil,
                    raised |-> r.raised, called |-> r.called, fn |-> r.fn,
                    args |-> r.args, res |-> r.res, outcome |-> outcome,
                    stored |-> r.stored, param_values |-> param_values,
                    ret_before |-> return_value,
                    ret_after |-> r.return_value,
                    depth_before |-> stack[cs.L], heap_before |-> heap]
  /\ UNCHANGED registry

\* the last reference to the live closure c is dropped: the finalize
\* notifier runs, once
Finalize(c) ==
  /\ closures[c].state = "live"
  /\ \E r \in {lgi_closure_finalize(closures[c], registry)} :
        /\ registry' = r.registry
        /\ closures' = [closures EXCEPT ![c] = r.closure]
  /\ last' = [NoOp EXCEPT !.op = "finalize", !.closure = c]
  /\ UNCHANGED <<stack, heap>>

\* several closures, on two contexts, with few kinds of invocation
ClosureNext ==
  \/ \E c \in ClosureIds, L \in Contexts, t \in FewTargets :
       Create(c, L, t) /\ UNCHANGED <<logVars, valueVars>>
  \/ \E c \in ClosureIds, in \in FewInvokeInputs :
       Invoke(c, in[1][1], in[1][2], in[2]) /\ UNCHANGED <<logVars, valueVars>>
  \/ \E c \in ClosureIds : Finalize(c) /\ UNCHANGED <<logVars, valueVars>>

\* one closure, with every kind of target and of invocation
InvokeNext ==
  \/ \E t \in AllTargets : Create(1, "L1", t) /\ UNCHANGED <<logVars, valueVars>>
  \/ \E in \in InvokeInputs :
       Invoke(1, in[1][1], in[1][2], in[2]) /\ UNCHANGED <<logVars, valueVars>>
  \/ Finalize(1) /\ UNCHANGED <<logVars, valueVars>>

(***************************************************************************)
(* The value marshaller on one GValue: lgi_value_init, lgi_value_load and  *)
(* lgi_value_store called in any order on a box the caller owns.           *)
(***************************************************************************)
\* a zeroed GValue, not yet initialized
UninitBox == GValue("G_TYPE_INVALID", 0, "", "")

\* the interface descriptors g_type_info_get_interface can return
Descriptors ==
  {"GtkOrientation", "GdkModifierType", "GtkButton", "GdkRectangle",
   "GtkTextIter", "gtk_main", "GtkCallback"}

TypeInfo(tag, iface) == [tag |-> tag, iface |-> iface]

\* the type metadata handed to lgi_value_init
TypeInfos ==
  {TypeInfo(tag, "") : tag \in DOMAIN GITypeTag \ {"GI_TYPE_TAG_INTERFACE"}}
  \cup {TypeInfo("GI_TYPE_TAG_INTERFACE", ii) : ii \in Descriptors}

\* boxes native code initialized itself, with the reference they hold
NativeBoxes ==
  {ObjBox("AppPrivateObject", "button1"), ObjBox("GtkButton", "button1"),
   ObjBox("GParamInt", "")}

\* the Lua values lgi_value_load is given
LoadValues ==
  {Nil, LuaTrue, LuaFalse, LuaNum(0), LuaNum(7), LuaStr("a"), LuaStr("7"),
   Compound("button1"), Compound("rect1")}

\* summary of a call, as the next calls remember it
CallSummary(c) == [op |-> c.op, v |-> c.v, ret |-> c.ret, raised |-> c.raised]

\* no call on the box yet
NoValueOp ==
  [op |-> "none", ti |-> TypeInfo("", ""), v |-> Nil, ret |-> 0,
   raised |-> NoError, pushed |-> <<>>, box_before |-> UninitBox,
   heap_before |-> <<>>, ii_got |-> 0, ii_unref |-> 0, origin |-> "none",
   prev |-> [op |-> "none", v |-> Nil, ret |-> 0, raised |-> NoError]]

\* the call before this one
Previous == CallSummary(vlast)

ValueBoxInit ==
  /\ vbox = UninitBox
  /\ owned = [p \in Pointers |-> 0]
  /\ vlast = NoValueOp

\* lgi_value_init (L, &vbox, ti)
ValueInit(ti) ==
  /\ \E r \in {lgi_value_init(vbox, ti)} :
       /\ vbox' = r.val
       /\ vlast' = [op |-> "init", ti |-> ti, v |-> Nil, ret |-> 0,
                    raised |-> r.raised, pushed |-> <<>>, box_before |-> vbox,
                    heap_before |-> heap, ii_got |-> r.ii_got,
                    ii_unref |-> r.ii_unref, prev |-> Previous,
                    origin |-> IF r.val # vbox THEN "init" ELSE vlast.origin]
  /\ UNCHANGED <<owned, heap>>

\* native code hands a box it initialized with g_value_init and set itself
ValueFromNative(b) ==
  /\ vbox = UninitBox
  /\ vbox' = b
  /\ heap' = HeapRef(heap, b.p)
  /\ vlast' = [op |-> "native", ti |-> TypeInfo("", ""), v |-> Nil, ret |-> 0,
               raised |-> NoError, pushed |-> <<>>, box_before |-> vbox,
               heap_before |-> heap, ii_got |-> 0, ii_unref |-> 0,
               prev |-> Previous, origin |-> "native"]
  /\ UNCHANGED owned

\* lgi_value_load (L, &vbox, narg) with v at narg
ValueLoad(v) ==
  /\ \E r \in {lgi_value_load(vbox, v, heap)} :
       /\ vbox' = r.val
       /\ heap' = r.heap
       /\ vlast' = [op |-> "load", ti |-> TypeInfo("", ""), v |-> v,
                    ret |-> r.ret, raised |-> r.raised, pushed |-> <<>>,
                    box_before |-> vbox, heap_before |-> heap, ii_got |-> 0,
                    ii_unref |-> 0, prev |-> Previous,
                    origin |-> vlast.origin]
  /\ UNCHANGED owned

\* lgi_value_store (L, &vbox); the handle of an object or boxed value is
\* owned by the Lua side from then on
ValueStore ==
  /\ vbox.p \in Pointers => owned[vbox.p] < MaxHandles
  /\ \E r \in {lgi_value_store(vbox, heap)} :
       /\ heap' = r.heap
       /\ owned' = IF r.ret = 1 /\ r.pushed[1].type = "userdata"
                       /\ r.pushed[1].s \in Pointers
                    THEN [owned EXCEPT ![r.pushed[1].s] = @ + 1]
                    ELSE owned
       /\ vlast' = [op |-> "store", ti |-> TypeInfo("", ""), v |-> Nil,
                    ret |-> r.ret, raised |-> r.raised, pushed |-> r.pushed,
                    box_before |-> vbox, heap_before |-> heap, ii_got |-> 0,
                    ii_unref |-> 0, prev |-> Previous,
                    origin |-> vlast.origin]
  /\ UNCHANGED vbox

ValueNext ==
  \/ \E ti \in TypeInfos :
       ValueInit(ti) /\ UNCHANGED <<logVars, registry, closures, stack, last>>
  \/ \E b \in NativeBoxes :
       ValueFromNative(b)
       /\ UNCHANGED <<logVars, registry, closures, stack, last>>
  \/ \E v \in LoadValues :
       ValueLoad(v) /\ UNCHANGED <<logVars, registry, closures, stack, last>>
  \/ ValueStore /\ UNCHANGED <<logVars, registry, closures, stack, last>>

Init == LogInit /\ ClosureInit /\ ValueBoxInit

\* the closure bridge with several closures
Spec == Init /\ [][ClosureNext]_vars
\* the closure bridge with one closure and all marshalling cases
SpecInvoke == Init /\ [][InvokeNext]_vars
\* the diagnostic bridge
SpecLog == Init /\ [][LogNext]_vars
\* the value marshaller
SpecValue == Init /\ [][ValueNext]_vars

(***************************************************************************)
(* Properties of the diagnostic bridge (SpecLog).                          *)
(***************************************************************************)
HasBit(m, k) == (m \div 2^k) % 2 = 1

\* the severity name the specification gives a mask
SeverityName(m) ==
  IF HasBit(m, 2) THEN "ERROR"
  ELSE IF HasBit(m, 3) THEN "CRITICAL"
  ELSE IF HasBit(m, 4) THEN "WARNING"
  ELSE IF HasBit(m, 5) THEN "MESSAGE"
  ELSE IF HasBit(m, 6) THEN "INFO"
  ELSE IF HasBit(m, 7) THEN "DEBUG"
  ELSE "???"

Delivered == logResult.status # "no event"
ErrorOrFatal == HasBit(logResult.log_level, 2) \/ HasBit(logResult.log_level, 1)
Truthy(v) == v # Nil /\ v # LuaFalse
ReturnedTruthy ==
  logResult.registered /\ logResult.status = "OK" /\ Truthy(logResult.result)
NotMarkedHandled ==
  ~logResult.registered
  \/ (logResult.status = "OK" /\ ~Truthy(logResult.result))
ExpectedLogError ==
  logResult.log_domain \o "-" \o SeverityName(logResult.log_level)
    \o " **: " \o logResult.message

\* C1: an event with the ERROR bit or the fatal flag always raises
\* "<domain>-<LEVEL> **: <message>": with no handler, with a handler that
\* returned a falsy result, and with one that returned a truthy result.
C1_ErrorOrFatalRaises ==
  (Delivered /\ ErrorOrFatal) => logResult.raised = ExpectedLogError

C1_Witness ==
  /\ ReturnedTruthy
  /\ logResult.handled
  /\ HasBit(logResult.log_level, 1)
  /\ ~HasBit(logResult.log_level, 2)
  /\ logResult.raised = "app-WARNING **: low memory"

\* C2 as stated: every event that no handler marked handled reaches the
\* native default handler, also when an error is raised for it.
C2_UnhandledAlwaysForwarded ==
  (Delivered /\ NotMarkedHandled) => logResult.defaultCalls = 1

\* C2, amended: an event that no handler marked handled reaches the native
\* default handler exactly once when no error is raised for it; when it has
\* the ERROR bit or the fatal flag the error is raised and the default
\* handler is not invoked.
C2_ForwardedUnlessRaised ==
  (Delivered /\ NotMarkedHandled) =>
     IF ErrorOrFatal
     THEN logResult.raised # NoError /\ logResult.defaultCalls = 0
     ELSE logResult.raised = NoError /\ logResult.defaultCalls = 1

C2_Witness ==
  /\ Delivered
  /\ ~logResult.registered
  /\ HasBit(logResult.log_level, 2)
  /\ logResult.raised = "app-ERROR **: low memory"
  /\ logResult.defaultCalls = 0

C4_FailedHandlerAlwaysRaises ==
  (Delivered /\ logResult.registered /\ logResult.status # "OK") =>
     logResult.raised # NoError

\* C4, amended: when the protected call of the handler reports a runtime
\* error (LUA_ERRRUN) an error is raised for the event whatever its
\* severity; when it reports another failure status the event is not
\* escalated: an error is raised only for the ERROR bit or the fatal flag,
\* and otherwise the event goes to the default handler as unhandled.
C4_RuntimeErrorRaises ==
  (Delivered /\ logResult.registered) =>
     /\ logResult.status = "LUA_ERRRUN" =>
          (logResult.raised = ExpectedLogError /\ logResult.defaultCalls = 0)
     /\ logResult.status \in {"LUA_ERRMEM", "LUA_ERRERR"} =>
          IF ErrorOrFatal
          THEN logResult.raised = ExpectedLogError
          ELSE logResult.raised = NoError /\ logResult.defaultCalls = 1

C4_Witness ==
  /\ logResult.registered
  /\ logResult.status = "LUA_ERRRUN"
  /\ logResult.log_level = 2^7
  /\ logResult.raised = "app-DEBUG **: low memory"

\* C10: the name is that of the first level bit set in the order ERROR,
\* CRITICAL, WARNING, MESSAGE, INFO, DEBUG, "???" when none of the six is
\* set, whatever the fatal and recursion flags; it is the name the handler
\* is given.
C10_LevelName ==
  Delivered =>
     /\ logResult.level = SeverityName(logResult.log_level)
     /\ logResult.registered =>
          logResult.handlerArgs =
            <<logResult.log_domain, SeverityName(logResult.log_level),
              logResult.message>>

C10_Witness ==
  /\ Delivered
  /\ logResult.registered
  /\ HasBit(logResult.log_level, 3)
  /\ HasBit(logResult.log_level, 4)
  /\ logResult.handlerArgs[2] = "CRITICAL"

\* the severities the emitter documents, and the level bit of each
SeverityNames == {"ERROR", "CRITICAL", "WARNING", "MESSAGE", "INFO", "DEBUG"}
SeverityBit(name) == CHOOSE k \in 2 .. 7 : SeverityName(2^k) = name

Emitted == emitted.called
\* the severity asked of the emitter, "DEBUG" standing for an absent level
AskedSeverity ==
  IF emitted.level_arg.type = "nil" THEN "DEBUG" ELSE emitted.level_arg.s

\* C11: the emitter fails with a usage error, and no event is emitted, for
\* every level string that is not one of the six severity names, the
\* fallback name "???" included.
C11_UnknownLevelRejected ==
  (/\ Emitted
   /\ emitted.level_arg.type = "string"
   /\ emitted.level_arg.s \notin SeverityNames) =>
     /\ emitted.raised # NoError
     /\ ~emitted.logged
     /\ ~Delivered

\* C12: emitting with one of the six severity names X (DEBUG when the level
\* is absent) raises an event whose level is exactly the single bit of X,
\* so that the event the handler sees maps back to X, with the domain and
\* the message unchanged.
C12_EmitLevelBit ==
  (/\ Emitted
   /\ \/ emitted.level_arg.type = "nil"
      \/ (emitted.level_arg.type = "string"
          /\ emitted.level_arg.s \in SeverityNames)) =>
     /\ emitted.raised = NoError
     /\ emitted.logged
     /\ emitted.level = 2^SeverityBit(AskedSeverity)
     /\ PopCount(emitted.level) = 1
     /\ Delivered
     /\ BitAnd(logResult.log_level, 2^9 - 1 - G_LOG_FLAG_FATAL) = emitted.level
     /\ logResult.level = AskedSeverity
     /\ logResult.registered => logResult.handlerArgs[2] = AskedSeverity

C12_Witness ==
  /\ Emitted
  /\ emitted.level_arg = Nil
  /\ emitted.level = G_LOG_LEVEL_DEBUG
  /\ logResult.registered
  /\ logResult.handlerArgs = <<"app", "DEBUG", "low memory">>

(***************************************************************************)
(* Properties of the closure bridge (Spec, SpecInvoke).                    *)
(***************************************************************************)
Invoked == last.op = "invoke"
Fundamental(box) == G_TYPE_FUNDAMENTAL(box.g_type)
NumberLike(v) == v.type = "number" \/ (v.type = "string" /\ IsNumeric(v.s))

\* the box has no value-bearing type
NotValueBearing(box) == box.g_type \in {"G_TYPE_NONE", "G_TYPE_INVALID"}

\* v is of the wrong kind for the box, or the type of the box is outside
\* the table of the marshaller
WrongKind(box, v) ==
  \/ (box.g_type = "G_TYPE_INT" \/ Fundamental(box) \in {"G_TYPE_ENUM", "G_TYPE_FLAGS"})
       /\ ~NumberLike(v)
  \/ box.g_type = "G_TYPE_STRING" /\ v.type \notin {"string", "number"}
  \/ Fundamental(box) \in {"G_TYPE_OBJECT", "G_TYPE_BOXED"}
       /\ v.type # "userdata"
  \/ Fundamental(box) = "G_TYPE_PARAM"

\* the callee returned a value that cannot be loaded into the return box
ReturnNotLoadable ==
  /\ Invoked
  /\ last.called
  /\ last.res = "OK"
  /\ (NotValueBearing(last.ret_before)
        \/ WrongKind(last.ret_before, last.outcome.value))

\* C5 as stated: when the callee returns a value that cannot be loaded into
\* return_box, invoke completes without raising and return_box is as before.
C5_LoadFailureSwallowed ==
  ReturnNotLoadable =>
     (last.raised = NoError /\ last.ret_after = last.ret_before)

\* C5, amended: when the callee returns a value that cannot be loaded into
\* return_box, return_box is as it was before the call; invoke completes
\* without raising only when the type of the box is not value-bearing (load
\* returns 0); for a value of the wrong kind, or a box type outside the
\* table of the marshaller, load raises a scripting error out of invoke.
C5_LoadFailureRaises ==
  ReturnNotLoadable =>
     /\ last.ret_after = last.ret_before
     /\ (last.raised = NoError) <=> NotValueBearing(last.ret_before)

C5_Witness ==
  /\ Invoked
  /\ last.called
  /\ last.res = "OK"
  /\ last.ret_before = EnumBox(0)
  /\ last.outcome.value = LuaStr("a")
  /\ last.raised = "number expected, got string"
  /\ last.ret_after = EnumBox(0)

\* both pins of closure c are in the registry
PinsHeld(c) ==
  /\ closures[c].state = "live"
  /\ closures[c].thread_ref \in 1 .. Len(registry.slots)
  /\ closures[c].target_ref \in 1 .. Len(registry.slots)
  /\ closures[c].thread_ref # closures[c].target_ref
  /\ registry.slots[closures[c].thread_ref] = ThreadValue(closures[c].L)
  /\ registry.slots[closures[c].target_ref] = closures[c].target

CalleeFailed == Invoked /\ last.called /\ last.res # "OK"

\* C6: when the callee raises, invoke returns without raising, return_box
\* is unmodified, both pins are still held, and the next invoke of the same
\* closure (when its parameters are marshalled) calls the same callable.
C6_FailureIsolated ==
  /\ [](CalleeFailed =>
          /\ last.raised = NoError
          /\ last.ret_after = last.ret_before
          /\ PinsHeld(last.closure)
          /\ last.fn = closures[last.closure].target)
  /\ [][(/\ CalleeFailed
          /\ last'.op = "invoke"
          /\ last'.closure = last.closure
          /\ last'.res # "not called")
          => (last'.called /\ last'.fn = last.fn)]_vars

C6_Witness ==
  /\ CalleeFailed
  /\ last.res = "LUA_ERRRUN"
  /\ last.ret_before = StrBox("")
  /\ last.ret_after = StrBox("")
  /\ last.depth_before = 1
  /\ PinsHeld(last.closure)

PinnedSlots == {i \in 1 .. Len(registry.slots) : registry.slots[i] # FreeSlot}
LiveClosures == {c \in ClosureIds : closures[c].state = "live"}

\* C7: from create to finalize both pins of a closure are in the pinning
\* table and no invoke releases or replaces one; finalize releases each pin
\* once and the closure is terminal, with no pin left.
C7_PinLifecycle ==
  /\ [](/\ \A c \in LiveClosures :
             /\ PinsHeld(c)
             /\ closures[c].thread_unrefs = 0
             /\ closures[c].target_unrefs = 0
        /\ \A c \in ClosureIds :
             closures[c].state = "finalized" =>
               (closures[c].thread_unrefs = 1 /\ closures[c].target_unrefs = 1)
        /\ Cardinality(PinnedSlots) = 2 * Cardinality(LiveClosures))
  /\ [][\A c \in ClosureIds :
          /\ closures[c].state = "finalized" => closures'[c] = closures[c]
          /\ (closures[c].state = "live" /\ closures'[c].state = "live") =>
               (closures'[c] = closures[c] /\ PinsHeld(c)')
          /\ (closures[c].state = "live" /\ closures'[c].state # "live") =>
               (/\ closures'[c].state = "finalized"
                /\ registry'.slots[closures[c].thread_ref] = FreeSlot
                /\ registry'.slots[closures[c].target_ref] = FreeSlot)]_vars

C7_Witness ==
  /\ last.op = "finalize"
  /\ last.closure = 1
  /\ closures[1].state = "finalized"
  /\ closures[1].thread_unrefs = 1
  /\ closures[1].target_unrefs = 1
  /\ closures[2].state = "none"
  /\ stack[closures[1].L] = 2
  /\ PinnedSlots = {}

\* the value can be called: a function, or a table or userdata with __call
Callable(v) ==
  v.type = "function" \/ (v.type \in {"table", "userdata"} /\ v.n = 1)

ScalarValue(box) ==
  IF box.g_type = "G_TYPE_STRING" THEN LuaStr(box.s)
  ELSE IF box.g_type = "G_TYPE_BOOLEAN"
       THEN (IF box.n # 0 THEN LuaTrue ELSE LuaFalse)
       ELSE LuaNum(box.n)

IsScalar(box) ==
  box.g_type \in {"G_TYPE_BOOLEAN", "G_TYPE_INT", "G_TYPE_STRING"}
  \/ Fundamental(box) \in {"G_TYPE_ENUM", "G_TYPE_FLAGS"}

\* C9: invoked with n parameter boxes of scalar types, the target callable
\* is called with exactly n arguments, argument i being the value of box i.
C9_ScalarArguments ==
  (/\ Invoked
   /\ \A i \in 1 .. Len(last.param_values) : IsScalar(last.param_values[i])) =>
     /\ last.stored = Len(last.param_values)
     /\ last.fn = closures[last.closure].target
     /\ last.called = Callable(last.fn)
     /\ Len(last.args) = Len(last.param_values)
     /\ \A i \in 1 .. Len(last.param_values) :
          last.args[i] = ScalarValue(last.param_values[i])

C9_Witness ==
  /\ Invoked
  /\ last.called
  /\ last.param_values = <<IntBox(7), StrBox("a")>>
  /\ last.args = <<LuaNum(7), LuaStr("a")>>
  /\ last.fn = Fn1

(***************************************************************************)
(* Properties of the value marshaller (SpecValue).                         *)
(***************************************************************************)
Loaded == vlast.op = "load"
Stored == vlast.op = "store"
Inited == vlast.op = "init"

\* v is a value of the domain of the type of the box
InDomain(b, v) ==
  CASE b.g_type = "G_TYPE_BOOLEAN" -> v.type = "boolean"
    [] b.g_type = "G_TYPE_INT"     -> v.type = "number"
    [] b.g_type = "G_TYPE_STRING"  -> v.type = "string"
    [] Fundamental(b) \in {"G_TYPE_ENUM", "G_TYPE_FLAGS"} -> v.type = "number"
    [] OTHER -> FALSE

\* C13: for every supported primitive type, enumeration type and flags
\* type T and every value v of the domain of T, a box initialized with T,
\* loaded with v and then stored yields exactly one scripting value, equal
\* to v; the load and the store each return 1.
C13_RoundTrip ==
  (/\ Stored
   /\ vlast.origin = "init"
   /\ vlast.prev.op = "load"
   /\ InDomain(vlast.box_before, vlast.prev.v)) =>
     /\ vlast.prev.ret = 1
     /\ vlast.prev.raised = NoError
     /\ vlast.ret = 1
     /\ vlast.raised = NoError
     /\ vlast.pushed = <<vlast.prev.v>>

C13_Witness ==
  /\ Stored
  /\ vlast.origin = "init"
  /\ vlast.prev.op = "load"
  /\ vlast.prev.v = LuaNum(7)
  /\ vlast.box_before = FlagsBox(7)
  /\ vlast.pushed = <<LuaNum(7)>>

\* C14: load and store on a box whose type is outside the value-bearing
\* set return 0 and never raise; load leaves the box unchanged and store
\* produces no scripting value.
C14_NoValueType ==
  ((Loaded \/ Stored) /\ NotValueBearing(vlast.box_before)) =>
     /\ vlast.ret = 0
     /\ vlast.raised = NoError
     /\ vbox = vlast.box_before
     /\ vlast.pushed = <<>>
     /\ heap = vlast.heap_before

C14_Witness ==
  /\ Loaded
  /\ vlast.v = LuaNum(7)
  /\ vlast.prev.op = "init"
  /\ vlast.box_before = UninitBox
  /\ vlast.ret = 0

\* the tags init supports, and the decimal text of the others
SupportedTags ==
  {"GI_TYPE_TAG_VOID", "GI_TYPE_TAG_BOOLEAN", "GI_TYPE_TAG_INT32",
   "GI_TYPE_TAG_UTF8", "GI_TYPE_TAG_INTERFACE"}
TagText ==
  [GI_TYPE_TAG_ARRAY |-> "15", GI_TYPE_TAG_GLIST |-> "17",
   GI_TYPE_TAG_ERROR |-> "20"]
UnregisteredDescriptors == {"gtk_main", "GtkCallback"}

\* C15: init with an array tag, or any tag other than VOID, a primitive
\* tag and INTERFACE, fails with an error naming the numeric tag and never
\* initializes the box; init with an INTERFACE tag whose descriptor is not
\* a registered type fails too and leaves the box uninitialized.
C15_UnsupportedInitFails ==
  Inited =>
    /\ vlast.ti.tag \notin SupportedTags =>
         /\ vlast.raised = "value_init: bad ti.tag=" \o TagText[vlast.ti.tag]
         /\ vbox = vlast.box_before
    /\ (/\ vlast.ti.tag = "GI_TYPE_TAG_INTERFACE"
        /\ vlast.ti.iface \in UnregisteredDescriptors) =>
         /\ vlast.raised # NoError
         /\ vbox = vlast.box_before

C15_Witness ==
  /\ Inited
  /\ vlast.ti.tag = "GI_TYPE_TAG_ARRAY"
  /\ vlast.raised = "value_init: bad ti.tag=15"
  /\ vbox = UninitBox

\* the object and boxed types the typelibs describe
KnownCompound(b) == b.g_type \in {"GtkButton", "GdkRectangle"}
UnknownCompound(b) ==
  Fundamental(b) \in {"G_TYPE_OBJECT", "G_TYPE_BOXED"} /\ ~KnownCompound(b)

\* C16: every store on an object or boxed box of a type known to
\* introspection takes one new reference (copy) of the held pointer and
\* wraps it as a handle, leaving the pointer and the reference of the box
\* untouched, so that k stores leave k references, one per handle; with a
\* type unknown to introspection the store raises the generic error
\* without taking a reference.
C16_StoreDuplicates ==
  /\ (Stored /\ KnownCompound(vlast.box_before)
             /\ vlast.box_before.p \in Pointers) =>
       /\ vlast.ret = 1
       /\ vlast.raised = NoError
       /\ vlast.pushed = <<Compound(vlast.box_before.p)>>
       /\ vbox = vlast.box_before
       /\ \A p \in Pointers :
            heap[p] = vlast.heap_before[p]
                        + (IF p = vlast.box_before.p THEN 1 ELSE 0)
  /\ (Stored /\ UnknownCompound(vlast.box_before)) =>
       /\ vlast.raised # NoError
       /\ vlast.pushed = <<>>
       /\ heap = vlast.heap_before
       /\ vbox = vlast.box_before
  /\ \A p \in Pointers :
       heap[p] = 1 + (IF vbox.p = p THEN 1 ELSE 0) + owned[p]

C16_Witness ==
  /\ Stored
  /\ vbox = ObjBox("GtkButton", "button1")
  /\ owned["button1"] = 2
  /\ heap["button1"] = 4
  /\ vlast.pushed = <<Compound("button1")>>

\* C17: in init with an INTERFACE tag the interface descriptor is released
\* exactly once before init returns or raises, whether the descriptor is a
\* registered type or not.
C17_DescriptorReleasedOnce ==
  (Inited /\ vlast.ti.tag = "GI_TYPE_TAG_INTERFACE") =>
     /\ vlast.ii_got = 1
     /\ vlast.ii_unref = 1

C17_Witness ==
  /\ Inited
  /\ vlast.ti = TypeInfo("GI_TYPE_TAG_INTERFACE", "GtkCallback")
  /\ vlast.raised = "value_init: bad ti.iface.type=2"
  /\ vlast.ii_got = 1
  /\ vlast.ii_unref = 1

(***************************************************************************)
(* Further properties of the closure bridge (Spec, SpecInvoke).            *)
(***************************************************************************)
\* the type of the box is value-bearing and outside the table of store
OutsideTable(b) ==
  ~NotValueBearing(b) /\ ~IsScalar(b) /\ ~KnownCompound(b)
\* the first parameter box store has no handling for
FirstOutside(pv) ==
  CHOOSE i \in 1 .. Len(pv) :
    OutsideTable(pv[i]) /\ \A j \in 1 .. (i - 1) : ~OutsideTable(pv[j])
StoreFails ==
  Invoked /\ \E i \in 1 .. Len(last.param_values) :
               OutsideTable(last.param_values[i])

\* C18: when store fails for parameter box i during invoke, a scripting
\* error is raised, the target callable is not called, return_box is not
\* modified and the parameters after i are not stored (no reference is
\* taken for them).
C18_StoreFailureRaises ==
  StoreFails =>
    LET i == FirstOutside(last.param_values)
    IN /\ last.raised # NoError
       /\ ~last.called
       /\ last.res = "not called"
       /\ last.args = <<>>
       /\ last.ret_after = last.ret_before
       /\ last.stored = i
       /\ \A p \in Pointers :
            heap[p] = last.heap_before[p]
                        + Cardinality({j \in 1 .. (i - 1) :
                                         /\ KnownCompound(last.param_values[j])
                                         /\ last.param_values[j].p = p})

C18_Witness ==
  /\ Invoked
  /\ last.param_values = <<ObjBox("GParamInt", ""), ObjBox("GtkButton", "button1")>>
  /\ last.raised = "g_value_get: no handling or  GParamInt(G_TYPE_PARAM)"
  /\ last.stored = 1
  /\ ~last.called
  /\ heap = last.heap_before

\* C19: every invoke that returns to the native caller leaves the stack of
\* its context exactly one slot deeper, the result or the error value of
\* the call, and nothing else changes the depth: after k completed
\* invocations on a context its stack holds k leftover values.
C19_OneSlotPerInvoke ==
  /\ []((Invoked /\ last.raised = NoError) =>
          stack[last.L] = last.depth_before + 1)
  /\ [][\A L \in Contexts :
          stack'[L] = stack[L]
                        + (IF /\ last'.op = "invoke"
                              /\ last'.raised = NoError
                              /\ last'.L = L
                           THEN 1 ELSE 0)]_vars

C19_Witness ==
  /\ Invoked
  /\ last.called
  /\ last.res = "LUA_ERRRUN"
  /\ last.raised = NoError
  /\ last.depth_before = 1
  /\ stack[last.L] = 2

\* the registry slots closure c refers to
SlotsOf(c) == {closures[c].thread_ref, closures[c].target_ref}

\* C20: with several closures alive, on the same context and wrapping the
\* same callable or not, each holds its own two registry slots, distinct
\* from those of every other live closure; create, invoke and finalize of
\* one closure leave the fields and the pins of the others unchanged.
C20_ClosuresIndependent ==
  /\ [](\A c \in LiveClosures :
          /\ PinsHeld(c)
          /\ \A d \in LiveClosures \ {c} : SlotsOf(c) \cap SlotsOf(d) = {})
  /\ [][\A d \in LiveClosures :
          d # last'.closure =>
            /\ closures'[d] = closures[d]
            /\ \A r \in SlotsOf(d) : registry'.slots[r] = registry.slots[r]]_vars

C20_Witness ==
  /\ LiveClosures = {1, 2}
  /\ closures[1].L = closures[2].L
  /\ closures[1].target = closures[2].target
  /\ Cardinality(SlotsOf(1) \cup SlotsOf(2)) = 4
  /\ Invoked
  /\ last.closure = 2

====
